---- MODULE Spec2Model ----
(***************************************************************************)
(* Model of compile.py: the selective archival pass                        *)
(* (zip_folder_respecting_gitignore and its helpers), the ignore-rule      *)
(* loader (load_gitignore_patterns) and the top-level recipe.              *)
(*                                                                         *)
(* A path segment is the sequence of its dot-separated components, so      *)
(* "x.wav" is <<"x","wav">>, ".git" is <<"","git">> and "lib" is           *)
(* <<"lib">>; a relative path (Path.parts) is a sequence of segments.      *)
(* An Optional value is <<>> (None) or <<v>>.                              *)
(***************************************************************************)
EXTENDS Integers, Sequences, FiniteSets, TLC

VARIABLES options, tree, pc, ignore_spec, zipf, todo, remaining, entries,
          calls, closes, rpc, npx_command, returncode, modified, exit_status,
          segments, matched, gitignores, gi_todo, gi_lines, gi_dir, patterns,
          gi_pc

vars == <<options, tree, pc, ignore_spec, zipf, todo, remaining, entries,
          calls, closes, rpc, npx_command, returncode, modified, exit_status,
          segments, matched, gitignores, gi_todo, gi_lines, gi_dir, patterns,
          gi_pc>>

zipvars == <<options, tree, pc, ignore_spec, zipf, todo, remaining, entries,
             calls, closes>>

recipevars == <<rpc, npx_command, returncode, modified, exit_status>>

bordervars == <<segments, matched>>

ignorevars == <<gitignores, gi_todo, gi_lines, gi_dir, patterns, gi_pc>>

\* ------------------------------------------------------------------ bounds
\* number of files in the source tree
MaxFiles == 2

\* number of segments of a path handed to is_border_file
MaxParts == 4

\* number of lines of a .gitignore file
MaxLines == 1

\* number of segments of a path tried against a pattern
MaxPathLen == 3

\* ------------------------------------------------------------ path algebra
None == <<>>

Some(v) == <<v>>

Range(s) == {s[i] : i \in 1..Len(s)}

Front(s) == SubSeq(s, 1, Len(s) - 1)

Last(s) == s[Len(s)]

LibSeg == <<"lib">>

GitSeg == <<"", "git">>

Assets == <<"assets">>

Sprites == <<"sprites">>

Borders == <<"borders">>

\* PurePath.suffix: the text after the last dot of the final segment, when
\* that dot is neither the first nor the last character of the name
suffix(parts) ==
    LET n == Last(parts)
    IN  IF /\ Len(n) >= 2
           /\ Last(n) # ""
           /\ ~(Len(n) = 2 /\ n[1] = "")
        THEN Some(Last(n))
        ELSE None

\* PurePath.with_suffix: replace the suffix, or append one when there is none
with_suffix(parts, ext) ==
    LET n == Last(parts)
        newname == IF suffix(parts) = None
                   THEN Append(n, ext)
                   ELSE Append(Front(n), ext)
    IN  Append(Front(parts), newname)

\* zip(iterable, iterable[1:], iterable[2:]) stops at the shortest argument
Zip3(s) ==
    LET t1 == IF Len(s) >= 1 THEN Tail(s) ELSE <<>>
        t2 == IF Len(t1) >= 1 THEN Tail(t1) ELSE <<>>
    IN  [i \in 1..Len(t2) |-> <<s[i], t1[i], t2[i]>>]

is_border_file_membership(iterable) ==
    /\ Assets \in Range(iterable)
    /\ Sprites \in Range(iterable)
    /\ Borders \in Range(iterable)

is_border_file(iterable) ==
    \E i \in DOMAIN Zip3(iterable) :
        LET abc == Zip3(iterable)[i]
        IN  abc[1] = Assets /\ abc[2] = Sprites /\ abc[3] = Borders

\* ------------------------------------------------------------------ codecs
\* The codec is a black box: its result is identified by the operation, the
\* source file it was given and the quality arguments it was called with.
RawBytes(parts) == [op |-> "raw", src |-> parts, codec |-> "none", q |-> None]

compress_ogg_file(ogg_contents, compression_level) ==
    [op |-> "compress_ogg_file", src |-> ogg_contents.src,
     codec |-> "libvorbis", q |-> Some(compression_level)]

wav_to_ogg(wav_path, compression_level) ==
    IF compression_level = None
    THEN [op |-> "wav_to_ogg", src |-> wav_path, codec |-> "default", q |-> None]
    ELSE [op |-> "wav_to_ogg", src |-> wav_path, codec |-> "libvorbis",
          q |-> compression_level]

\* ----------------------------------------------------------------- options
CompressionLevels == {1, 3}

ZipOptions ==
    [wav_to_ogg : BOOLEAN,
     ogg_compression_level : {None} \cup {Some(l) : l \in CompressionLevels},
     remove_borders : BOOLEAN,
     remove_builtin_libs : BOOLEAN,
     also_compress_converted_ogg : BOOLEAN]

\* the dataclass defaults, used by parse_args under --compress
DefaultOptions ==
    [wav_to_ogg |-> TRUE, ogg_compression_level |-> Some(1),
     remove_borders |-> TRUE, remove_builtin_libs |-> TRUE,
     also_compress_converted_ogg |-> TRUE]

parse_args(compress) ==
    IF compress
    THEN DefaultOptions
    ELSE [wav_to_ogg |-> FALSE, ogg_compression_level |-> None,
          remove_borders |-> FALSE, remove_builtin_libs |-> FALSE,
          also_compress_converted_ogg |-> FALSE]

\* ------------------------------------------------------------- source tree
\* the files a source tree is drawn from: each audio extension at the root,
\* under the top-level lib, under a deeper lib, under the border sprites and
\* inside the version-control metadata
FilePaths ==
    { << <<"x", "wav">> >>, << <<"x", "ogg">> >>, << <<"x", "png">> >>,
      << <<"x", "v2", "wav">> >>,
      << LibSeg, <<"x", "wav">> >>, << LibSeg, <<"x", "ogg">> >>,
      << <<"mods">>, LibSeg, <<"x", "ogg">> >>,
      << Assets, Sprites, Borders, <<"x", "png">> >>,
      << Assets, Sprites, Borders, <<"x", "ogg">> >>,
      << GitSeg, <<"x", "png">> >> }

RECURSIVE SubsetsUpTo(_, _)
SubsetsUpTo(S, k) ==
    IF k = 0 THEN {{}}
    ELSE LET prev == SubsetsUpTo(S, k - 1)
         IN  prev \cup {t \cup {x} : t \in prev, x \in S}

\* every directory above a file is itself an entry of the tree
DirsOf(files) ==
    UNION {{SubSeq(f, 1, k) : k \in 1..(Len(f) - 1)} : f \in files}

Trees == SubsetsUpTo(FilePaths, MaxFiles) \ {{}}

\* the entries directly inside directory d
Children(files, d) ==
    {p \in files \cup DirsOf(files) : Len(p) = Len(d) + 1 /\ Front(p) = d}

RECURSIVE Perms(_)
Perms(S) ==
    IF S = {} THEN {<<>>}
    ELSE UNION {{<<x>> \o q : q \in Perms(S \ {x})} : x \in S}

\* ------------------------------------------- zip_folder_respecting_gitignore
\* The if/elif cascade of the loop body: which branch is taken for an entry.
BranchLibAfterCompress(path, is_file, opts, ign) ==
    IF ~(is_file /\ path \notin ign /\ GitSeg \notin Range(path)) THEN "not_selected"
    ELSE IF opts.ogg_compression_level # None /\ suffix(path) = Some("ogg")
         THEN "compress"
    ELSE IF opts.remove_builtin_libs /\ path[1] = LibSeg THEN "skip_lib"
    ELSE IF opts.remove_borders /\ is_border_file(path) THEN "skip_border"
    ELSE IF suffix(path) = Some("wav") THEN "wav_to_ogg"
    ELSE "write"

Branch(path, is_file, opts, ign) ==
    IF ~(is_file /\ path \notin ign /\ GitSeg \notin Range(path)) THEN "not_selected"
    ELSE IF opts.remove_builtin_libs /\ path[1] = LibSeg THEN "skip_lib"
    ELSE IF opts.ogg_compression_level # None /\ suffix(path) = Some("ogg")
         THEN "compress"
    ELSE IF opts.remove_borders /\ is_border_file(path) THEN "skip_border"
    ELSE IF suffix(path) = Some("wav") THEN "wav_to_ogg"
    ELSE "write"

Writes(b) == b \in {"compress", "wav_to_ogg", "write"}

\* the (entry name, bytes) pair a writing branch hands to the container
EntryForAlwaysLevel(path, opts, b) ==
    IF b = "compress"
    THEN [name |-> path,
          bytes |-> compress_ogg_file(RawBytes(path), opts.ogg_compression_level[1])]
    ELSE IF b = "wav_to_ogg"
    THEN [name |-> with_suffix(path, "ogg"),
          bytes |-> wav_to_ogg(path, opts.ogg_compression_level)]
    ELSE [name |-> path, bytes |-> RawBytes(path)]

EntryFor(path, opts, b) ==
    IF b = "compress"
    THEN [name |-> path,
          bytes |-> compress_ogg_file(RawBytes(path), opts.ogg_compression_level[1])]
    ELSE IF b = "wav_to_ogg"
    THEN [name |-> with_suffix(path, "ogg"),
          bytes |-> wav_to_ogg(path, IF opts.also_compress_converted_ogg
                                     THEN opts.ogg_compression_level
                                     ELSE None)]
    ELSE [name |-> path, bytes |-> RawBytes(path)]

\* load_gitignore_patterns(folder): the compiled matcher, as the set of the
\* tree's files it matches
LoadGitignore ==
    /\ pc = "start"
    /\ \E ign \in {{}} \cup {{f} : f \in tree} : ignore_spec' = ign
    /\ pc' = "loaded"
    /\ UNCHANGED <<options, tree, zipf, todo, remaining, entries, calls, closes>>
    /\ UNCHANGED <<recipevars, bordervars, ignorevars>>

\* with zipfile.ZipFile(zip_path, 'w', ...) as zipf: the container is created
ZipOpen ==
    /\ pc = "loaded"
    /\ zipf = "unopened"
    /\ zipf' = "open"
    /\ todo' = << <<>> >>
    /\ remaining' = {}
    /\ pc' = "walk"
    /\ UNCHANGED <<options, tree, ignore_spec, entries, calls, closes>>
    /\ UNCHANGED <<recipevars, bordervars, ignorevars>>

\* the destination cannot be created: no container, the error propagates
ZipOpenError ==
    /\ pc = "loaded"
    /\ pc' = "raised"
    /\ UNCHANGED <<options, tree, ignore_spec, zipf, todo, remaining, entries,
                   calls, closes>>
    /\ UNCHANGED <<recipevars, bordervars, ignorevars>>

\* folder.rglob("*"): the next directory, in pre-order, lists its entries
NextDir ==
    /\ pc = "walk"
    /\ remaining = {}
    /\ todo # <<>>
    /\ LET d == Head(todo)
           subdirs == Children(tree, d) \ tree
       IN  /\ remaining' = Children(tree, d)
           /\ \E order \in Perms(subdirs) : todo' = order \o Tail(todo)
    /\ UNCHANGED <<options, tree, pc, ignore_spec, zipf, entries, calls, closes>>
    /\ UNCHANGED <<recipevars, bordervars, ignorevars>>

\* the cascade written with `if` in place of the first `elif` after the
\* recompression: a recompressed file falls through to the plain copy
VisitFallThrough(path) ==
    /\ pc = "walk"
    /\ path \in remaining
    /\ remaining' = remaining \ {path}
    /\ LET b == Branch(path, path \in tree, options, ignore_spec)
           e == EntryFor(path, options, b)
       IN  /\ entries' = IF b = "compress"
                         THEN Append(Append(entries, e),
                                     [name |-> path, bytes |-> RawBytes(path)])
                         ELSE IF Writes(b) THEN Append(entries, e) ELSE entries
           /\ calls' = IF b \in {"compress", "wav_to_ogg"}
                       THEN Append(calls, e.bytes) ELSE calls
    /\ UNCHANGED <<options, tree, pc, ignore_spec, zipf, todo, closes>>
    /\ UNCHANGED <<recipevars, bordervars, ignorevars>>

\* one iteration of the loop body, ending normally
Visit(path) ==
    /\ pc = "walk"
    /\ path \in remaining
    /\ remaining' = remaining \ {path}
    /\ LET b == Branch(path, path \in tree, options, ignore_spec)
           e == EntryFor(path, options, b)
       IN  /\ entries' = IF Writes(b) THEN Append(entries, e) ELSE entries
           /\ calls' = IF b \in {"compress", "wav_to_ogg"}
                       THEN Append(calls, e.bytes) ELSE calls
    /\ UNCHANGED <<options, tree, pc, ignore_spec, zipf, todo, closes>>
    /\ UNCHANGED <<recipevars, bordervars, ignorevars>>

\* the container opened without a with statement: an exception leaves the
\* function with the container still open
VisitErrorNoClose(path, stage) ==
    /\ pc = "walk"
    /\ path \in remaining
    /\ LET b == Branch(path, path \in tree, options, ignore_spec)
           e == EntryFor(path, options, b)
       IN  /\ Writes(b)
           /\ stage = "codec" => b \in {"compress", "wav_to_ogg"}
           /\ calls' = IF stage = "write" /\ b \in {"compress", "wav_to_ogg"}
                       THEN Append(calls, e.bytes) ELSE calls
    /\ remaining' = remaining \ {path}
    /\ pc' = "raised"
    /\ UNCHANGED <<options, tree, ignore_spec, zipf, todo, entries, closes>>
    /\ UNCHANGED <<recipevars, bordervars, ignorevars>>

\* one iteration that raises: the source cannot be read, the codec fails on
\* it, or the container write fails; nothing is recorded for the file
VisitError(path, stage) ==
    /\ pc = "walk"
    /\ path \in remaining
    /\ LET b == Branch(path, path \in tree, options, ignore_spec)
           e == EntryFor(path, options, b)
       IN  /\ Writes(b)
           /\ stage = "codec" => b \in {"compress", "wav_to_ogg"}
           /\ calls' = IF stage = "write" /\ b \in {"compress", "wav_to_ogg"}
                       THEN Append(calls, e.bytes) ELSE calls
    /\ remaining' = remaining \ {path}
    /\ pc' = "unwinding"
    /\ UNCHANGED <<options, tree, ignore_spec, zipf, todo, entries, closes>>
    /\ UNCHANGED <<recipevars, bordervars, ignorevars>>

\* leaving the with block, normally or by an exception: ZipFile.__exit__
ZipClose ==
    /\ \/ pc = "walk" /\ remaining = {} /\ todo = <<>>
       \/ pc = "unwinding"
    /\ zipf = "open"
    /\ zipf' = "closed"
    /\ closes' = closes + 1
    /\ pc' = IF pc = "unwinding" THEN "raised" ELSE "returned"
    /\ UNCHANGED <<options, tree, ignore_spec, todo, remaining, entries, calls>>
    /\ UNCHANGED <<recipevars, bordervars, ignorevars>>

ErrorStages == {"read", "codec", "write"}

NextZip ==
    \/ LoadGitignore
    \/ ZipOpen
    \/ ZipOpenError
    \/ NextDir
    \/ \E path \in FilePaths \cup DirsOf(FilePaths) : Visit(path)
    \/ \E path \in FilePaths, stage \in ErrorStages : VisitError(path, stage)
    \/ ZipClose

\* nothing of the archival pass has happened yet
ZipIdle ==
    /\ ignore_spec = {}
    /\ zipf = "unopened"
    /\ todo = <<>>
    /\ remaining = {}
    /\ entries = <<>>
    /\ calls = <<>>
    /\ closes = 0

RecipeIdle ==
    /\ npx_command = None
    /\ returncode = None
    /\ modified = FALSE
    /\ exit_status = None

BorderIdle ==
    /\ segments = <<>>
    /\ matched = None

IgnoreIdle ==
    /\ gitignores = <<>>
    /\ gi_todo = {}
    /\ gi_lines = <<>>
    /\ gi_dir = <<>>
    /\ patterns = <<>>
    /\ gi_pc = "none"

\* a direct call zip_folder_respecting_gitignore(folder, zip, options)
Init ==
    /\ options \in ZipOptions
    /\ tree \in Trees
    /\ pc = "start"
    /\ ZipIdle
    /\ rpc = "none"
    /\ RecipeIdle
    /\ BorderIdle
    /\ IgnoreIdle

Spec == Init /\ [][NextZip]_vars

\* ------------------------------------------------------------------ recipe
\* options = parse_args(), then the call of zip_folder_respecting_gitignore
ParseArgs ==
    /\ rpc = "parse_args"
    /\ \E compress \in BOOLEAN : options' = parse_args(compress)
    /\ rpc' = "zip"
    /\ pc' = "start"
    /\ UNCHANGED <<tree, ignore_spec, zipf, todo, remaining, entries, calls, closes>>
    /\ UNCHANGED <<npx_command, returncode, modified, exit_status>>
    /\ UNCHANGED <<bordervars, ignorevars>>

\* an exception of the archival pass is not caught: the process exits non-zero
ZipRaised ==
    /\ rpc = "zip"
    /\ pc = "raised"
    /\ rpc' = "exited"
    /\ exit_status' = Some(1)
    /\ UNCHANGED zipvars
    /\ UNCHANGED <<npx_command, returncode, modified>>
    /\ UNCHANGED <<bordervars, ignorevars>>

\* npx_command = shutil.which("npx"); RuntimeError when it is not found
WhichNpx ==
    /\ rpc = "zip"
    /\ pc = "returned"
    /\ \E found \in {None, Some("npx")} :
        /\ npx_command' = found
        /\ IF found = None
           THEN rpc' = "exited" /\ exit_status' = Some(1)
           ELSE rpc' = "run" /\ exit_status' = exit_status
    /\ UNCHANGED zipvars
    /\ UNCHANGED <<returncode, modified>>
    /\ UNCHANGED <<bordervars, ignorevars>>

ExitCodes == {0, 1}

\* subprocess.run([...]): the CompletedProcess is discarded
RunLoveJs ==
    /\ rpc = "run"
    /\ \E code \in ExitCodes : returncode' = Some(code)
    /\ rpc' = "modify"
    /\ UNCHANGED zipvars
    /\ UNCHANGED <<npx_command, modified, exit_status>>
    /\ UNCHANGED <<bordervars, ignorevars>>

\* modify_output(options): patches the generated files, or raises when the
\* favicon, index.html or theme/love.css cannot be read or written
ModifyOutput ==
    /\ rpc = "modify"
    /\ modified' = TRUE
    /\ \E ok \in BOOLEAN : exit_status' = IF ok THEN Some(0) ELSE Some(1)
    /\ rpc' = "exited"
    /\ UNCHANGED zipvars
    /\ UNCHANGED <<npx_command, returncode>>
    /\ UNCHANGED <<bordervars, ignorevars>>

NextRecipe ==
    \/ ParseArgs
    \/ LoadGitignore
    \/ ZipOpen
    \/ ZipOpenError
    \/ NextDir
    \/ \E path \in FilePaths \cup DirsOf(FilePaths) : Visit(path)
    \/ \E path \in FilePaths, stage \in ErrorStages : VisitError(path, stage)
    \/ ZipClose
    \/ ZipRaised
    \/ WhichNpx
    \/ RunLoveJs
    \/ ModifyOutput

\* python compile.py <kristal_folder> <html_folder_output> [--compress]
InitRecipe ==
    /\ options = DefaultOptions
    /\ tree \in Trees
    /\ pc = "not_called"
    /\ ZipIdle
    /\ rpc = "parse_args"
    /\ RecipeIdle
    /\ BorderIdle
    /\ IgnoreIdle

SpecRecipe == InitRecipe /\ [][NextRecipe]_vars

\* ---------------------------------------------------------- is_border_file
BorderSegs ==
    {Assets, Sprites, Borders, <<"bordersville">>, <<"notborders">>}

RECURSIVE SeqsUpTo(_, _)
SeqsUpTo(S, n) ==
    IF n = 0 THEN {<<>>}
    ELSE LET prev == SeqsUpTo(S, n - 1)
         IN  prev \cup {Append(q, x) : q \in {p \in prev : Len(p) = n - 1}, x \in S}

\* a call is_border_file(relative_path.parts)
InitBorder ==
    /\ segments \in SeqsUpTo(BorderSegs, MaxParts)
    /\ matched = None
    /\ options = DefaultOptions
    /\ tree = {}
    /\ pc = "not_called"
    /\ ZipIdle
    /\ rpc = "none"
    /\ RecipeIdle
    /\ IgnoreIdle

CallIsBorderFile ==
    /\ matched = None
    /\ matched' = Some(is_border_file(segments))
    /\ UNCHANGED <<segments, zipvars, recipevars, ignorevars>>

NextBorder == CallIsBorderFile

SpecBorder == InitBorder /\ [][NextBorder]_vars

\* ------------------------------------------------- load_gitignore_patterns
\* Here a string is the sequence of its characters, and a path segment is a
\* string without "/".
Whitespace == {" "}

RECURSIVE lstrip(_)
lstrip(line) ==
    IF line # <<>> /\ Head(line) \in Whitespace THEN lstrip(Tail(line)) ELSE line

RECURSIVE rstrip(_)
rstrip(line) ==
    IF line # <<>> /\ Last(line) \in Whitespace THEN rstrip(Front(line)) ELSE line

\* str.strip()
strip(line) == rstrip(lstrip(line))

\* str.split("/")
RECURSIVE Split(_)
Split(str) ==
    IF str = <<>> THEN << <<>> >>
    ELSE IF Head(str) = "/" THEN << <<>> >> \o Split(Tail(str))
    ELSE LET r == Split(Tail(str))
         IN  << <<Head(str)>> \o Head(r) >> \o Tail(r)

\* "/".join(segs)
RECURSIVE Join(_)
Join(segs) ==
    IF segs = <<>> THEN <<>>
    ELSE IF Len(segs) = 1 THEN segs[1]
    ELSE segs[1] \o <<"/">> \o Join(Tail(segs))

\* the parts pathlib keeps of a string: empty and "." segments are dropped
PathlibParts(str) ==
    SelectSeq(Split(str), LAMBDA seg : seg # <<>> /\ seg # <<".">>)

\* str(rel_dir / line): an operand that starts with "/" is absolute and
\* replaces everything on its left; exactly two leading slashes are kept
PathJoinStr(rel_dir, line) ==
    IF line # <<>> /\ Head(line) = "/"
    THEN LET two == /\ Len(line) >= 2 /\ line[2] = "/"
                    /\ ~(Len(line) >= 3 /\ line[3] = "/")
         IN  (IF two THEN <<"/", "/">> ELSE <<"/">>) \o Join(PathlibParts(line))
    ELSE Join(rel_dir \o PathlibParts(line))

\* `str(rel_dir / line) if rel_dir != Path(".") else line`
ScopedPattern(rel_dir, line) ==
    IF rel_dir # <<>> THEN PathJoinStr(rel_dir, line) ELSE line

DoubleStar == <<"*", "*">>

\* one segment of a gitwildmatch pattern against one path segment: "*"
\* stands for any run of characters
RECURSIVE Glob(_, _)
Glob(pat, seg) ==
    IF pat = <<>> THEN seg = <<>>
    ELSE IF Head(pat) = "*"
         THEN \E k \in 0..Len(seg) : Glob(Tail(pat), SubSeq(seg, k + 1, Len(seg)))
    ELSE seg # <<>> /\ Head(pat) = Head(seg) /\ Glob(Tail(pat), Tail(seg))

\* the pattern's segments against a path: "**" spans any number of
\* directories, and a pattern that is used up matches the path it reached
\* and everything below it
RECURSIVE MatchSegs(_, _)
MatchSegs(psegs, path) ==
    IF psegs = <<>> THEN TRUE
    ELSE IF Head(psegs) = DoubleStar
         THEN IF Len(psegs) = 1 THEN path # <<>>
              ELSE \E k \in 0..Len(path) :
                      MatchSegs(Tail(psegs), SubSeq(path, k + 1, Len(path)))
    ELSE /\ path # <<>>
         /\ Glob(Head(psegs), Head(path))
         /\ MatchSegs(Tail(psegs), Tail(path))

\* pathspec's gitwildmatch reading of one pattern string: a leading "!"
\* negates; a leading or inner "/" anchors the pattern at the root, a pattern
\* of one segment matches at any depth; a trailing "/" matches only what is
\* below the directory
GitWildMatch(pattern) ==
    LET p0 == strip(pattern)
        null == p0 = <<>> \/ Head(p0) = "#" \/ p0 = <<"/">>
        include == ~null /\ Head(p0) # "!"
        p1 == IF null \/ include THEN p0 ELSE Tail(p0)
        segs0 == Split(p1)
        segs1 == IF segs0[1] = <<>> THEN Tail(segs0)
                 ELSE IF Len(segs0) = 1 \/ (Len(segs0) = 2 /\ segs0[2] = <<>>)
                      THEN IF segs0[1] # DoubleStar THEN <<DoubleStar>> \o segs0
                           ELSE segs0
                 ELSE segs0
        segs2 == IF Len(segs1) > 1 /\ Last(segs1) = <<>>
                 THEN Front(segs1) \o <<DoubleStar>>
                 ELSE segs1
    IN  [null |-> null, include |-> include, segs |-> segs2]

\* the pattern's regular expression matches the root-relative path
PatternMatches(pattern, path) ==
    LET g == GitWildMatch(pattern)
    IN  ~g.null /\ MatchSegs(g.segs, path)

\* PathSpec.match_file: the last pattern that matches decides
RECURSIVE match_file(_, _)
match_file(pats, path) ==
    IF pats = <<>> THEN FALSE
    ELSE IF PatternMatches(Last(pats), path) THEN GitWildMatch(Last(pats)).include
    ELSE match_file(Front(pats), path)

\* the lines a .gitignore is drawn from
Lines ==
    { <<"a">>, <<"/", "a">>, <<"!", "a">>, <<"*">>, <<"a", "/">>,
      <<"#", "a">>, <<>>, <<" ", "a">>, <<"s", "/", "a">> }

\* the directories that hold a .gitignore: the root and one subdirectory
GitignoreDirs == { <<>>, << <<"s">> >> }

PathSegs == { <<"a">>, <<"s">>, <<"!", "a">> }

AllPaths == SeqsUpTo(PathSegs, MaxPathLen) \ {<<>>}

IsPrefix(d, path) == Len(d) <= Len(path) /\ SubSeq(path, 1, Len(d)) = d

\* a call load_gitignore_patterns(root)
InitIgnore ==
    /\ gitignores \in [GitignoreDirs -> SeqsUpTo(Lines, MaxLines)]
    /\ gi_todo = GitignoreDirs
    /\ gi_lines = <<>>
    /\ gi_dir = <<>>
    /\ patterns = <<>>
    /\ gi_pc = "rglob"
    /\ options = DefaultOptions
    /\ tree = {}
    /\ pc = "not_called"
    /\ ZipIdle
    /\ rpc = "none"
    /\ RecipeIdle
    /\ BorderIdle

\* for gitignore in root.rglob(".gitignore"): the next file is opened
NextGitignore ==
    /\ gi_pc = "rglob"
    /\ \E d \in gi_todo :
        /\ gi_dir' = d
        /\ gi_lines' = gitignores[d]
        /\ gi_todo' = gi_todo \ {d}
    /\ gi_pc' = "lines"
    /\ UNCHANGED <<gitignores, patterns, zipvars, recipevars, bordervars>>

\* for line in f: blank lines and comments are skipped, every other line is
\* scoped and appended
ReadLine ==
    /\ gi_pc = "lines"
    /\ gi_lines # <<>>
    /\ LET line == strip(Head(gi_lines))
       IN  patterns' = IF line = <<>> \/ Head(line) = "#"
                       THEN patterns
                       ELSE Append(patterns,
                                   [rel_dir |-> gi_dir, line |-> line,
                                    scoped |-> ScopedPattern(gi_dir, line)])
    /\ gi_lines' = Tail(gi_lines)
    /\ UNCHANGED <<gitignores, gi_todo, gi_dir, gi_pc, zipvars, recipevars,
                   bordervars>>

\* the file is exhausted
EndOfFile ==
    /\ gi_pc = "lines"
    /\ gi_lines = <<>>
    /\ gi_pc' = "rglob"
    /\ UNCHANGED <<gitignores, gi_todo, gi_lines, gi_dir, patterns, zipvars,
                   recipevars, bordervars>>

\* return pathspec.PathSpec.from_lines("gitwildmatch", patterns)
Compile ==
    /\ gi_pc = "rglob"
    /\ gi_todo = {}
    /\ gi_pc' = "compiled"
    /\ LET pats == [i \in DOMAIN patterns |-> patterns[i].scoped]
       IN  ignore_spec' = {path \in AllPaths : match_file(pats, path)}
    /\ UNCHANGED <<gitignores, gi_todo, gi_lines, gi_dir, patterns>>
    /\ UNCHANGED <<options, tree, pc, zipf, todo, remaining, entries, calls,
                   closes, recipevars, bordervars>>

NextIgnore ==
    \/ NextGitignore
    \/ ReadLine
    \/ EndOfFile
    \/ Compile

SpecIgnore == InitIgnore /\ [][NextIgnore]_vars

----------------------------------------------------------------------------
\* the entries written from source file f, and the codec calls made on it
EntryCount(f) == Cardinality({i \in DOMAIN entries : entries[i].bytes.src = f})

CallCount(f, op) ==
    Cardinality({i \in DOMAIN calls : calls[i].src = f /\ calls[i].op = op})

HasBorderTriple(f) ==
    \E i \in 1..(Len(f) - 2) : SubSeq(f, i, i + 2) = <<Assets, Sprites, Borders>>

\* C1: a file that matches the ignore matcher, has a '.git' segment, lies
\* under a top-level lib while remove_builtin_libs is set, or has the segments
\* assets/sprites/borders while remove_borders is set gets no entry, whatever
\* its extension.
SkipTakesPrecedence ==
    \A f \in tree :
        ( \/ f \in ignore_spec
          \/ GitSeg \in Range(f)
          \/ options.remove_builtin_libs /\ f[1] = LibSeg
          \/ options.remove_borders /\ HasBorderTriple(f) )
        => EntryCount(f) = 0

\* C2: with wav_to_ogg false a '.wav' file is never transcoded: its entry has
\* the unmodified relative path and the source bytes; with every option off
\* the container holds each non-ignored, non-.git file unmodified.
WavTranscodedOnlyWhenEnabled ==
    /\ \A i \in DOMAIN entries :
          (~options.wav_to_ogg /\ suffix(entries[i].bytes.src) = Some("wav"))
              => /\ entries[i].name = entries[i].bytes.src
                 /\ entries[i].bytes.op = "raw"
    /\ (pc = "returned" /\ options = parse_args(FALSE))
          => \A f \in tree :
                (f \notin ignore_spec /\ GitSeg \notin Range(f))
                    => \E i \in DOMAIN entries :
                          entries[i] = [name |-> f, bytes |-> RawBytes(f)]

\* the loop body's decision to write nothing for a file
Skipped(f) ==
    \/ f \in ignore_spec
    \/ GitSeg \in Range(f)
    \/ options.remove_builtin_libs /\ f[1] = LibSeg
    \/ /\ options.remove_borders /\ HasBorderTriple(f)
       /\ ~(options.ogg_compression_level # None /\ suffix(f) = Some("ogg"))

LibFilesSkipped ==
    /\ \A f \in tree :
          (options.remove_builtin_libs /\ f[1] = LibSeg)
              => /\ EntryCount(f) = 0
                 /\ CallCount(f, "compress_ogg_file") = 0
                 /\ CallCount(f, "wav_to_ogg") = 0
    /\ pc = "returned"
          => \A f \in tree :
                ( /\ LibSeg \in Range(f)
                  /\ ~(options.remove_builtin_libs /\ f[1] = LibSeg)
                  /\ f \notin ignore_spec
                  /\ GitSeg \notin Range(f)
                  /\ ~HasBorderTriple(f) )
                => EntryCount(f) = 1

LibOggSkippedDeeperLibKept ==
    /\ pc = "returned"
    /\ options.remove_builtin_libs
    /\ options.ogg_compression_level # None
    /\ tree = { <<LibSeg, <<"x", "ogg">> >>, << <<"mods">>, LibSeg, <<"x", "ogg">> >> }
    /\ ignore_spec = {}
    /\ Len(entries) = 1

\* C8: a transcoded entry is named by the source path with its extension
\* replaced by 'ogg' (directories and stem unchanged) and is encoded at
\* ogg_compression_level when also_compress_converted_ogg is set and at the
\* codec's default quality otherwise, or when no level is configured; a
\* recompressed entry keeps its path and is encoded at ogg_compression_level.
TranscodeAndRecompressEntries ==
    \A i \in DOMAIN entries :
        LET e == entries[i]
            src == e.bytes.src
        IN  /\ e.bytes.op = "wav_to_ogg" =>
                /\ Len(e.name) = Len(src)
                /\ Front(e.name) = Front(src)
                /\ Last(e.name) = Front(Last(src)) \o <<"ogg">>
                /\ Last(Last(src)) = "wav"
                /\ e.bytes.q = IF options.also_compress_converted_ogg
                               THEN options.ogg_compression_level
                               ELSE None
                /\ (e.bytes.codec = "default") <=> (e.bytes.q = None)
                /\ options.ogg_compression_level = None => e.bytes.codec = "default"
            /\ e.bytes.op = "compress_ogg_file" =>
                /\ e.name = src
                /\ e.bytes.q # None
                /\ e.bytes.q = options.ogg_compression_level

TranscodedAtDefaultQuality ==
    /\ options.ogg_compression_level = Some(3)
    /\ ~options.also_compress_converted_ogg
    /\ \E i \in DOMAIN entries :
          /\ entries[i].name = << <<"x", "v2", "ogg">> >>
          /\ entries[i].bytes.codec = "default"
    /\ \E i \in DOMAIN entries :
          /\ entries[i].bytes.op = "compress_ogg_file"
          /\ entries[i].bytes.q = Some(3)

\* C9: the container is open throughout the walk and is closed exactly once
\* when the function is left, by return or by an exception of the loop body;
\* entries are written only while it is open.
ContainerLifecycle ==
    /\ [](/\ closes <= 1
          /\ pc = "walk" => zipf = "open"
          /\ pc = "returned" => (zipf = "closed" /\ closes = 1)
          /\ (pc = "raised" /\ zipf # "unopened") => (zipf = "closed" /\ closes = 1)
          /\ zipf = "unopened" => (entries = <<>> /\ closes = 0))
    /\ [][entries' # entries => (zipf = "open" /\ zipf' = "open")]_vars

ClosedAfterEarlyError ==
    /\ pc = "raised"
    /\ zipf = "closed"
    /\ closes = 1
    /\ todo # <<>>

\* C10: no two entries of the container have the same entry name.
UniqueEntryNames ==
    \A i, j \in DOMAIN entries :
        i # j => entries[i].name # entries[j].name

\* C7: if npx is not found or love.js exits non-zero, modify_output is never
\* executed and the run ends with a non-zero exit status.
FailFastOnCompiler ==
    /\ (rpc \in {"run", "modify", "exited"} /\ pc = "returned" /\ npx_command = None)
         => (~modified /\ (rpc = "exited" => exit_status # Some(0)))
    /\ (returncode # None /\ returncode # Some(0))
         => (~modified /\ (rpc = "exited" => exit_status # Some(0)))


\* C5: is_border_file is true exactly when three consecutive segments are
\* 'assets', 'sprites', 'borders' in that order; names that are only
\* superstrings, or that occur without being consecutive, and sequences
\* shorter than three segments are not matched.
BorderIffConsecutiveTriple ==
    matched # None =>
        (matched[1] <=>
            \E i \in 1..(Len(segments) - 2) :
                SubSeq(segments, i, i + 2) = <<Assets, Sprites, Borders>>)

BorderTripleMatched ==
    /\ matched = Some(TRUE)
    /\ Len(segments) = 4
    /\ segments[1] = <<"notborders">>


\* C3: a pattern read from a .gitignore in a subdirectory d (lines that begin
\* with '/' or '!' included) matches no path outside d, and the patterns of
\* the root .gitignore are added unchanged.
NestedPatternsStayInScope ==
    \A i \in DOMAIN patterns :
        IF patterns[i].rel_dir = <<>>
        THEN patterns[i].scoped = patterns[i].line
        ELSE \A path \in AllPaths :
                PatternMatches(patterns[i].scoped, path)
                    => IsPrefix(patterns[i].rel_dir, path)

====
